---- MODULE Spec2Model ----
(***************************************************************************)
(* fast_log: the two-stage record pipeline of src/src/fast_log.rs.         *)
(*                                                                         *)
(* Producers call Logger::log, flush() and exit(); each call sends one     *)
(* FastLogRecord on the channel held in the global LOG_SENDER slot (Q1).   *)
(* The first coroutine of init_custom_log (the ingest worker) receives     *)
(* from Q1 and keeps records in log_stack until a CommandFlush arrives;    *)
(* the second coroutine (the sink worker) receives from the back channel   *)
(* (Q2), formats and hands each record to every appender.                  *)
(*                                                                         *)
(* Every init_custom_log call that passes the emptiness check builds a new *)
(* pipeline (channel pair, two coroutines, wait group); pipelines are      *)
(* numbered 1, 2, ... in creation order and LOG_SENDER holds the number of *)
(* the pipeline whose sender is installed (0 is Option::None).             *)
(*                                                                         *)
(* The second part is the file split appender of                           *)
(* src/src/plugin/file_split.rs: do_log writes to temp.log and rotates it  *)
(* into snapshots, and the packer thread of spawn_saver applies the        *)
(* retention and packs every snapshot it is sent.                          *)
(***************************************************************************)
EXTENDS Naturals, Sequences, FiniteSets

\* ---- bounds of the model ------------------------------------------------
MaxSent == 4        \* records accepted by the channels, all pipelines together
MaxInit == 2        \* init_custom_log calls that get past the emptiness check
MaxCalls == 4       \* do_log calls on the split appender
MaxTries == 3       \* packer invocations followed for one LogPack

\* the producer threads
Producers == {1, 2}
\* the lengths of the appender list init_custom_log is given
AppenderCounts == {0, 2}
\* the pipelines, in creation order
Pipes == 1..MaxInit

\* log::Level as i32 (fast_log.rs:58-64); the level init_custom_log is given:
\* Level::Info, as in bench_test.rs
Levels == {3}

\* Command (fast_log.rs:83, 232, 260)
CommandRecord == "CommandRecord"
CommandFlush == "CommandFlush"
CommandExit == "CommandExit"

\* the module path Logger::log refuses (fast_log.rs:78)
Blacklisted == "may::io::sys::select"
ModulePaths == {"app", Blacklisted}

\* record.formated.len() of the records the split appender is given
RecordSizes == {1, 2}
\* max_split_bytes (LogSize::get_len)
SplitSizes == {2}
\* what temp.log holds when FileSplitAppender::new opens it
ExistingLogs == {<<>>, <<0>>}
\* the split size and record size of the runs with the packer thread
PackSplitSize == 2
\* how far Local::now() has moved since the snapshot name before: 0 gives
\* the same name again
Ticks == {0, 1}
\* RollingType (file_split.rs:40-44)
RollingTypes == {[kind |-> "All", n |-> 0], [kind |-> "KeepNum", n |-> 1],
                 [kind |-> "KeepNum", n |-> 2], [kind |-> "KeepTime", n |-> 1]}
\* Packer::retry()
Retries == {0, 1}
\* the snapshots of an earlier run found in the directory
OldSnapshots == {{}, {[name |-> 0, data |-> <<>>]}}

VARIABLES
    LOG_SENDER,   \* the global slot: 0 = None, p = Some(sender of pipeline p)
    level,        \* LOGGER.level
    logger_set,   \* log::set_logger(&LOGGER) has succeeded
    main_q,       \* main_q[p]: Q1 of pipeline p, read through main_recv
    log_stack,    \* log_stack[p]: the ingest worker's VecDeque
    back_q,       \* back_q[p]: Q2 of pipeline p, read through back_recv
    main_pc,      \* main_pc[p]: ingest worker "none" | "run" | "done"
    back_pc,      \* back_pc[p]: sink worker "none" | "run" | "done"
    wait_group,   \* wait_group[p]: clones of the wait group not yet dropped
    released,     \* released[p][w]: drops of worker w's clone
    appenders,    \* appenders[p]: length of the appender list of pipeline p
    logs,         \* logs[p][a]: records appender a of pipeline p got by do_log
    sent,         \* sent[p]: every record a send on Q1 of p accepted, in order
    ret,          \* the last API call and its result
    waiter,       \* the holder of the wait group init_custom_log returned
    max_split_bytes, \* FileSplitAppenderData.max_split_bytes
    rolling_type, \* FileSplitAppenderData.rolling_type
    temp_bytes,   \* FileSplitAppenderData.temp_bytes
    file_pos,     \* the cursor of FileSplitAppenderData.file
    temp_log,     \* the bytes of <dir_path>temp.log
    dir,          \* the snapshots in dir_path: entries [name, data]
    clock,        \* the last time Local::now() returned
    pack_q,       \* the LogPack channel from send_pack to spawn_saver
    retry,        \* packer.retry()
    saver,        \* the packer thread: position, the LogPack in hand and
                  \* the packer invocations for it
    calls,        \* do_log calls made on the split appender
    last_cmd,     \* record.command of the last of them
    given,        \* the Record calls among them no file operation cut short
    io_failed,    \* some file operation of the split appender has failed
    rotations     \* LogPacks sent so far

vars == <<LOG_SENDER, level, logger_set, main_q, log_stack, back_q,
          main_pc, back_pc, wait_group, released, appenders, logs,
          sent, ret, waiter>>

\* the variables of the split appender, its directory and its packer thread
split_vars == <<max_split_bytes, rolling_type, temp_bytes, file_pos, temp_log,
                dir, clock, pack_q, retry, saver, calls, last_cmd, given,
                io_failed, rotations>>

all_vars == <<vars, split_vars>>

\* the variables of the pipelines themselves
pipe_vars == <<main_q, log_stack, back_q, main_pc, back_pc,
               wait_group, released, appenders, logs, sent>>

\* ---- records -------------------------------------------------------------
\* FastLogRecord built by Logger::log on producer t; seq tells the records of
\* one producer apart (it stands for the text of args): the n-th record of t
\* that a channel accepted carries n
NewRecord(t, n) == [command |-> CommandRecord, prod |-> t, seq |-> n]
\* FastLogRecord built by flush()
FlushRecord == [command |-> CommandFlush, prod |-> 0, seq |-> 0]
\* FastLogRecord built by exit()
ExitRecord == [command |-> CommandExit, prod |-> 0, seq |-> 0]

RECURSIVE TotalSent(_)
TotalSent(p) == IF p = 0 THEN 0 ELSE Len(sent[p]) + TotalSent(p - 1)

\* the records of producer t accepted so far, all pipelines together
Accepted(t) ==
    {<<p, i>> \in Pipes \X (1..MaxSent) :
        i <= Len(sent[p]) /\ sent[p][i].command = CommandRecord
                          /\ sent[p][i].prod = t}

\* ---- the channel of the slot ---------------------------------------------
\* Sender::send succeeds while the receiver is alive: main_recv lives in the
\* ingest coroutine and is dropped when that coroutine returns.
SendOk(p) == main_pc[p] = "run"

\* LoggerSender::send: the record is queued, or the call returns Err
Send(p, rec) ==
    IF SendOk(p)
    THEN /\ main_q' = [main_q EXCEPT ![p] = Append(@, rec)]
         /\ sent' = [sent EXCEPT ![p] = Append(@, rec)]
    ELSE UNCHANGED <<main_q, sent>>

PipeInit ==
    /\ LOG_SENDER = 0
    /\ level = 1
    /\ logger_set = FALSE
    /\ main_q = [p \in Pipes |-> <<>>]
    /\ log_stack = [p \in Pipes |-> <<>>]
    /\ back_q = [p \in Pipes |-> <<>>]
    /\ main_pc = [p \in Pipes |-> "none"]
    /\ back_pc = [p \in Pipes |-> "none"]
    /\ wait_group = [p \in Pipes |-> 0]
    /\ released = [p \in Pipes |-> [main |-> 0, back |-> 0]]
    /\ appenders = [p \in Pipes |-> 0]
    /\ logs = [p \in Pipes |-> <<>>]
    /\ sent = [p \in Pipes |-> <<>>]
    /\ ret = [op |-> "none", res |-> "none"]
    /\ waiter = "none"

\* no split appender is among the appenders of the pipelines
NoSplit ==
    /\ max_split_bytes = 0
    /\ rolling_type = [kind |-> "All", n |-> 0]
    /\ temp_bytes = 0
    /\ file_pos = 0
    /\ temp_log = <<>>
    /\ dir = {}
    /\ clock = 0
    /\ pack_q = <<>>
    /\ retry = 0
    /\ saver = [pc |-> "none", pack |-> 0, tries |-> 0, first |-> "none",
                seen_true |-> FALSE]
    /\ calls = 0
    /\ last_cmd = "none"
    /\ given = {}
    /\ io_failed = FALSE
    /\ rotations = 0

Init == PipeInit /\ NoSplit


\* ---- init_custom_log -------------------------------------------------------
\* set_log: LOGGER.set_level, then the slot is overwritten with the sender of
\* a fresh channel; the sender it held before is dropped
set_log(p, lv) ==
    /\ level' = lv
    /\ LOG_SENDER' = p

\* the two go!() coroutines of pipeline p start, each owning one clone of the
\* wait group; the sink coroutine owns the appender list
Spawn(p, n) ==
    /\ main_pc' = [main_pc EXCEPT ![p] = "run"]
    /\ back_pc' = [back_pc EXCEPT ![p] = "run"]
    /\ wait_group' = [wait_group EXCEPT ![p] = 2]
    /\ appenders' = [appenders EXCEPT ![p] = n]
    /\ logs' = [logs EXCEPT ![p] = [a \in 1..n |-> <<>>]]

\* log::set_logger(&LOGGER): fails once a logger is set; on success the caller
\* gets the wait group back
Register ==
    IF logger_set
    THEN /\ ret' = [op |-> "init", res |-> "SetLoggerError"]
         /\ UNCHANGED <<logger_set, waiter>>
    ELSE /\ logger_set' = TRUE
         /\ waiter' = "idle"
         /\ ret' = [op |-> "init", res |-> "Ok"]

\* a plausible slip: the emptiness check placed after set_log
InitCustomLog_late_check(n, lv) ==
    IF n = 0
    THEN /\ LOG_SENDER < MaxInit
         /\ set_log(LOG_SENDER + 1, lv)
         /\ ret' = [op |-> "init", res |-> "EmptyAppenders"]
         /\ UNCHANGED <<logger_set, waiter, pipe_vars>>
    ELSE /\ LOG_SENDER < MaxInit
         /\ set_log(LOG_SENDER + 1, lv)
         /\ Spawn(LOG_SENDER + 1, n)
         /\ Register
         /\ UNCHANGED <<main_q, log_stack, back_q, released, sent>>

\* init_custom_log(appenders, level, filter, format) with n appenders
InitCustomLog(n, lv) ==
    IF n = 0
    THEN /\ ret' = [op |-> "init", res |-> "EmptyAppenders"]
         /\ UNCHANGED <<LOG_SENDER, level, logger_set, waiter,
                        pipe_vars>>
    ELSE /\ LOG_SENDER < MaxInit
         /\ set_log(LOG_SENDER + 1, lv)
         /\ Spawn(LOG_SENDER + 1, n)
         /\ Register
         /\ UNCHANGED <<main_q, log_stack, back_q, released, sent>>

\* ---- producers -------------------------------------------------------------
\* a plausible slip: the module path of the record not looked at
Log_no_blacklist(t, rej, mp) ==
    /\ TotalSent(MaxInit) < MaxSent
    /\ IF LOG_SENDER = 0
       THEN /\ ret' = [op |-> "log", res |-> "none"]
            /\ UNCHANGED <<main_q, sent>>
       ELSE IF rej
            THEN /\ ret' = [op |-> "log", res |-> "vetoed"]
                 /\ UNCHANGED <<main_q, sent>>
            ELSE /\ ret' = [op |-> "log", res |-> "send"]
                 /\ Send(LOG_SENDER, NewRecord(t, Cardinality(Accepted(t)) + 1))
    /\ UNCHANGED <<LOG_SENDER, level, logger_set, log_stack, back_q,
                   main_pc, back_pc, wait_group, released, appenders,
                   logs, waiter>>

\* Logger::log, called by producer t; rej is the answer of filter.filter(record)
\* and mp the record's module_path. The result of send is ignored; ret keeps
\* which way the call went.
Log(t, rej, mp) ==
    /\ TotalSent(MaxInit) < MaxSent
    /\ IF LOG_SENDER = 0
       THEN /\ ret' = [op |-> "log", res |-> "none"]
            /\ UNCHANGED <<main_q, sent>>
       ELSE IF rej \/ mp = Blacklisted
            THEN /\ ret' = [op |-> "log", res |-> "vetoed"]
                 /\ UNCHANGED <<main_q, sent>>
            ELSE /\ ret' = [op |-> "log", res |-> "send"]
                 /\ Send(LOG_SENDER, NewRecord(t, Cardinality(Accepted(t)) + 1))
    /\ UNCHANGED <<LOG_SENDER, level, logger_set, log_stack, back_q,
                   main_pc, back_pc, wait_group, released, appenders,
                   logs, waiter>>

\* the common body of exit() and flush(): Err when the slot is None or the
\* send fails, otherwise the record is queued on Q1 and the call returns Ok
SendControl(op, rec) ==
    /\ (LOG_SENDER # 0 /\ SendOk(LOG_SENDER)) => TotalSent(MaxInit) < MaxSent
    /\ IF LOG_SENDER # 0
       THEN /\ Send(LOG_SENDER, rec)
            /\ ret' = [op |-> op, res |-> IF SendOk(LOG_SENDER) THEN "Ok" ELSE "Err"]
       ELSE /\ UNCHANGED <<main_q, sent>>
            /\ ret' = [op |-> op, res |-> "Err"]
    /\ UNCHANGED <<LOG_SENDER, level, logger_set, log_stack, back_q,
                   main_pc, back_pc, wait_group, released, appenders,
                   logs, waiter>>

\* exit()
Exit == SendControl("exit", ExitRecord)

\* a plausible slip in the copied body: flush() building the record of exit()
Flush_sends_exit == SendControl("flush", ExitRecord)

\* flush()
Flush == SendControl("flush", FlushRecord)


\* ---- the wait group --------------------------------------------------------
\* drop of one clone of the wait group of pipeline p, by worker w
WaitGroupDrop(p, w) ==
    /\ wait_group' = [wait_group EXCEPT ![p] = @ - 1]
    /\ released' = [released EXCEPT ![p][w] = @ + 1]

\* FastLogWaitGroup::wait returns when no clone is left
WaitGroupDone(p) == wait_group[p] = 0

\* ---- the ingest worker (first coroutine) -----------------------------------
\* a plausible slip: the clone dropped and the loop left without telling Q2
IngestExit_no_forward(p, s) ==
    /\ WaitGroupDrop(p, "main")
    /\ main_pc' = [main_pc EXCEPT ![p] = "done"]
    /\ UNCHANGED <<log_stack, back_q>>

\* a plausible slip: the buffer drained to Q2 ahead of the CommandExit
IngestExit_drain(p, s) ==
    /\ back_q' = [back_q EXCEPT ![p] = (@ \o log_stack[p]) \o <<s>>]
    /\ log_stack' = [log_stack EXCEPT ![p] = <<>>]
    /\ WaitGroupDrop(p, "main")
    /\ main_pc' = [main_pc EXCEPT ![p] = "done"]

\* CommandExit: the record goes to Q2, the clone is dropped, the loop breaks
IngestExit(p, s) ==
    /\ back_q' = [back_q EXCEPT ![p] = Append(@, s)]
    /\ WaitGroupDrop(p, "main")
    /\ main_pc' = [main_pc EXCEPT ![p] = "done"]
    /\ UNCHANGED log_stack

\* a plausible slip: "if let" for "while let", one record forwarded per flush
IngestFlush_first_only(p, s) ==
    /\ back_q' = [back_q EXCEPT ![p] =
                    IF log_stack[p] = <<>> THEN @ ELSE Append(@, Head(log_stack[p]))]
    /\ log_stack' = [log_stack EXCEPT ![p] = IF @ = <<>> THEN @ ELSE Tail(@)]
    /\ UNCHANGED <<main_pc, wait_group, released>>

\* a plausible slip: pop_back for pop_front
IngestFlush_lifo(p, s) ==
    /\ back_q' = [back_q EXCEPT ![p] =
                    @ \o [i \in 1..Len(log_stack[p]) |->
                            log_stack[p][Len(log_stack[p]) + 1 - i]]]
    /\ log_stack' = [log_stack EXCEPT ![p] = <<>>]
    /\ UNCHANGED <<main_pc, wait_group, released>>

\* a plausible slip: the stack iterated and cloned, never emptied
IngestFlush_keep(p, s) ==
    /\ back_q' = [back_q EXCEPT ![p] = @ \o log_stack[p]]
    /\ UNCHANGED <<log_stack, main_pc, wait_group, released>>

\* CommandFlush: log_stack is emptied from the front into Q2; the flush
\* record itself is sent nowhere
IngestFlush(p, s) ==
    /\ back_q' = [back_q EXCEPT ![p] = @ \o log_stack[p]]
    /\ log_stack' = [log_stack EXCEPT ![p] = <<>>]
    /\ UNCHANGED <<main_pc, wait_group, released>>

\* a plausible slip: the record forwarded at once instead of stacked
IngestPush_eager(p, s) ==
    /\ back_q' = [back_q EXCEPT ![p] = Append(@, s)]
    /\ UNCHANGED <<log_stack, main_pc, wait_group, released>>

\* any other record: log_stack.push_back
IngestPush(p, s) ==
    /\ log_stack' = [log_stack EXCEPT ![p] = Append(@, s)]
    /\ UNCHANGED <<back_q, main_pc, wait_group, released>>

\* one turn of the loop with main_recv.recv() returning Ok
IngestWorker(p) ==
    /\ main_pc[p] = "run"
    /\ main_q[p] # <<>>
    /\ main_q' = [main_q EXCEPT ![p] = Tail(@)]
    /\ LET s == Head(main_q[p]) IN
         IF s.command = CommandExit THEN IngestExit(p, s)
         ELSE IF s.command = CommandFlush THEN IngestFlush(p, s)
         ELSE IngestPush(p, s)
    /\ UNCHANGED <<LOG_SENDER, level, logger_set, back_pc,
                   appenders, logs, sent, ret, waiter>>

\* a plausible slip: the loop left on a receive error
IngestRecvErr_break(p) ==
    /\ main_pc[p] = "run"
    /\ main_q[p] = <<>>
    /\ LOG_SENDER # p
    /\ WaitGroupDrop(p, "main")
    /\ main_pc' = [main_pc EXCEPT ![p] = "done"]
    /\ UNCHANGED <<LOG_SENDER, level, logger_set, main_q, log_stack, back_q,
                   back_pc, appenders, logs, sent, ret, waiter>>

\* one turn of the loop with main_recv.recv() returning Err: the queue is
\* empty and its only sender was dropped when set_log overwrote the slot.
\* data.is_ok() is false and the loop goes round again, nothing changed.
IngestRecvErr(p) ==
    /\ main_pc[p] = "run"
    /\ main_q[p] = <<>>
    /\ LOG_SENDER # p
    /\ UNCHANGED vars

\* ---- the sink worker (second coroutine) ------------------------------------
\* a plausible slip: the clone dropped without the break
SinkExit_no_break(p) ==
    /\ WaitGroupDrop(p, "back")
    /\ UNCHANGED <<back_pc, logs>>

\* CommandExit: the clone is dropped and the loop breaks
SinkExit(p) ==
    /\ WaitGroupDrop(p, "back")
    /\ back_pc' = [back_pc EXCEPT ![p] = "done"]
    /\ UNCHANGED logs

\* format.do_format, then do_log of every appender, in list order
SinkDoLog(p, data) ==
    /\ logs' = [logs EXCEPT ![p] = [a \in 1..appenders[p] |-> Append(@[a], data)]]
    /\ UNCHANGED <<back_pc, wait_group, released>>

\* one turn of the loop with back_recv.recv() returning Ok. (recv never
\* returns Err to a running sink worker: the only sender is dropped after
\* the ingest worker has queued CommandExit, which ends this loop.)
SinkWorker(p) ==
    /\ back_pc[p] = "run"
    /\ back_q[p] # <<>>
    /\ back_q' = [back_q EXCEPT ![p] = Tail(@)]
    /\ LET data == Head(back_q[p]) IN
         IF data.command = CommandExit THEN SinkExit(p)
         ELSE SinkDoLog(p, data)
    /\ UNCHANGED <<LOG_SENDER, level, logger_set, main_q, log_stack,
                   main_pc, appenders, sent, ret,
                   waiter>>

\* ---- the caller that holds the wait group ----------------------------------
\* FastLogWaitGroup::wait, called on the wait group init_custom_log returned
\* (that of the first pipeline: only the first registration succeeds). The
\* call blocks until no clone is left, so it completes only then.
Wait ==
    /\ waiter = "idle"
    /\ WaitGroupDone(1)
    /\ waiter' = "returned"
    /\ UNCHANGED <<LOG_SENDER, level, logger_set, pipe_vars, ret>>

\* ==== the file split appender (src/src/plugin/file_split.rs) ================
\* A byte of a file is the number of the do_log call that wrote it; 0 is a
\* byte no call of this run wrote (content found at start, or the zero fill
\* of a write past the end). A file name in the directory is the time stamp
\* in it: temp<stamp>.log is the number <stamp>.

\* the bytes of file f after n bytes b are written at offset pos
WriteAt(f, pos, b, n) ==
    LET end == IF pos + n > Len(f) THEN pos + n ELSE Len(f)
    IN [i \in 1..end |-> IF i > pos /\ i <= pos + n THEN b
                         ELSE IF i <= Len(f) THEN f[i] ELSE 0]

\* the names of the entries of directory d
FileNames(d) == {e.name : e \in d}

\* std::fs::copy of temp.log to name: the entry is created or overwritten
Copy(d, name, data) ==
    {e \in d : e.name # name} \cup {[name |-> name, data |-> data]}

\* the entries of set s as a sequence, by file name descending
RECURSIVE SortDesc(_)
SortDesc(s) ==
    IF s = {} THEN <<>>
    ELSE LET m == CHOOSE e \in s : \A o \in s : o.name <= e.name
         IN <<m>> \o SortDesc(s \ {m})

\* RollingType::read_paths: the entries starting with temp other than
\* temp.log (every entry of dir is one), newest name first
read_paths(d) == SortDesc(d)

\* a plausible slip: KeepNum(n) removing the paths above index n only
do_rolling_above(d, rolling, now) ==
    LET paths == read_paths(d)
    IN CASE rolling.kind = "All" -> d
         [] rolling.kind = "KeepNum" ->
                {paths[i] : i \in {j \in 1..Len(paths) : j - 1 <= rolling.n}}
         [] rolling.kind = "KeepTime" ->
                {e \in d : ~(now - e.name > rolling.n)}

\* RollingType::do_rolling at time now: what is left of directory d.
\* KeepNum(n) removes the paths at index n and above, KeepTime(n) those
\* older than n
do_rolling(d, rolling, now) ==
    LET paths == read_paths(d)
    IN CASE rolling.kind = "All" -> d
         [] rolling.kind = "KeepNum" ->
                {paths[i] : i \in {j \in 1..Len(paths) : j - 1 < rolling.n}}
         [] rolling.kind = "KeepTime" ->
                {e \in d : ~(now - e.name > rolling.n)}

\* a plausible slip: the cached size not reset
truncate_keeps_size(set_len_ok, seek_ok) ==
    /\ temp_log' = IF set_len_ok THEN <<>> ELSE temp_log
    /\ file_pos' = IF seek_ok THEN 0 ELSE file_pos
    /\ temp_bytes' = temp_bytes

\* FileSplitAppenderData::truncate; the results of set_len and seek are
\* ignored, so either may fail and the other still runs
truncate(set_len_ok, seek_ok) ==
    /\ temp_log' = IF set_len_ok THEN <<>> ELSE temp_log
    /\ file_pos' = IF seek_ok THEN 0 ELSE file_pos
    /\ temp_bytes' = 0

\* FileSplitAppenderData::send_pack; Local::now() is the clock, advanced by
\* tick since the name before. The result of the copy is ignored.
send_pack(copy_ok, set_len_ok, seek_ok, tick) ==
    LET new_log_name == clock + tick
    IN /\ clock' = new_log_name
       /\ dir' = IF copy_ok THEN Copy(dir, new_log_name, temp_log) ELSE dir
       /\ pack_q' = Append(pack_q, [rolling |-> rolling_type,
                                    new_log_name |-> new_log_name])
       /\ rotations' = rotations + 1
       /\ truncate(set_len_ok, seek_ok)

\* the outcomes of file.write(bytes) of size bytes: an
\* error, or Ok(n) with n of them written
WriteResults(size) ==
    {[ok |-> FALSE, n |-> 0]} \cup {[ok |-> TRUE, n |-> k] : k \in 1..size}

\* the body of LogAppender::do_log of FileSplitAppender, rotate being the
\* value of its condition: send_pack and return, or the write. This is call
\* calls + 1 of the run; record.command is cmd and record.formated has size
\* bytes. wres is the outcome of the write, copy_ok, set_len_ok and seek_ok
\* those of the file operations of a rotation.
do_log_on(rotate, cmd, size, wres, copy_ok, set_len_ok, seek_ok, tick) ==
    /\ calls < MaxCalls
    /\ calls' = calls + 1
    /\ last_cmd' = cmd
    /\ IF rotate
       THEN /\ send_pack(copy_ok, set_len_ok, seek_ok, tick)
            /\ io_failed' = (io_failed \/ ~copy_ok \/ ~set_len_ok \/ ~seek_ok)
            /\ given' = IF cmd = CommandRecord
                        THEN given \cup {calls + 1} ELSE given
       ELSE /\ IF wres.ok
               THEN /\ temp_log' = WriteAt(temp_log, file_pos, calls + 1, wres.n)
                    /\ file_pos' = file_pos + wres.n
                    /\ temp_bytes' = temp_bytes + wres.n
               ELSE UNCHANGED <<temp_log, file_pos, temp_bytes>>
            /\ io_failed' = (io_failed \/ ~wres.ok)
            /\ given' = IF wres.ok /\ wres.n = size
                        THEN given \cup {calls + 1} ELSE given
            /\ UNCHANGED <<clock, dir, pack_q, rotations>>
    /\ UNCHANGED <<max_split_bytes, rolling_type, retry, saver>>

\* a plausible slip: the size compared with > for >=
do_log_strict(cmd, size, wres, copy_ok, set_len_ok, seek_ok, tick) ==
    do_log_on(cmd = CommandFlush \/ temp_bytes > max_split_bytes,
              cmd, size, wres, copy_ok, set_len_ok, seek_ok, tick)

\* LogAppender::do_log of FileSplitAppender
do_log(cmd, size, wres, copy_ok, set_len_ok, seek_ok, tick) ==
    do_log_on(cmd = CommandFlush \/ temp_bytes >= max_split_bytes,
              cmd, size, wres, copy_ok, set_len_ok, seek_ok, tick)

\* ---- the packer thread (spawn_saver) ---------------------------------------
\* the loop of spawn_saver receives a LogPack and runs the retention of the
\* pack on the directory, before anything is packed
SaverRecv ==
    /\ saver.pc = "recv"
    /\ pack_q # <<>>
    /\ pack_q' = Tail(pack_q)
    /\ dir' = do_rolling(dir, Head(pack_q).rolling, clock)
    /\ saver' = [pc |-> "open", pack |-> Head(pack_q).new_log_name,
                 tries |-> 0, first |-> "none", seen_true |-> FALSE]
    /\ UNCHANGED <<max_split_bytes, rolling_type, temp_bytes, file_pos,
                   temp_log, clock, retry, calls, last_cmd, given, io_failed,
                   rotations>>

\* do_pack called by spawn_saver: the snapshot is opened; when that fails the
\* call returns Err(pack) and the loop goes back to receiving
SaverOpen ==
    /\ saver.pc = "open"
    /\ saver' = [saver EXCEPT !.pc = IF saver.pack \in FileNames(dir)
                                     THEN "pack" ELSE "recv"]
    /\ UNCHANGED <<max_split_bytes, rolling_type, temp_bytes, file_pos,
                   temp_log, dir, clock, pack_q, retry, calls, last_cmd,
                   given, io_failed, rotations>>

\* the results of Packer::do_pack
PackResults == {"Ok(true)", "Ok(false)", "Err"}

\* one packer.do_pack invocation inside do_pack, returning r. After an Err
\* with retry() > 0 do_pack calls itself: the inner call opens the snapshot
\* again (it is still there: only this thread removes snapshots) and invokes
\* the packer again, on an Err it calls itself in turn. When an invocation
\* returns Ok the calls unwind: every call whose own invocation was an Err
\* returns Ok(false), so the outermost call returns the first result, or
\* Ok(false) when that was an Err. spawn_saver removes the snapshot on
\* Ok(true). The model follows the recursion for MaxTries invocations.
SaverPack(r) ==
    /\ saver.pc = "pack"
    /\ (r = "Err" /\ retry > 0) => saver.tries + 1 < MaxTries
    /\ LET first == IF saver.tries = 0 THEN r ELSE saver.first
           again == r = "Err" /\ retry > 0
       IN /\ saver' = [pc |-> IF again THEN "pack" ELSE "recv",
                       pack |-> saver.pack,
                       tries |-> saver.tries + 1,
                       first |-> first,
                       seen_true |-> (saver.seen_true \/ r = "Ok(true)")]
          /\ dir' = IF ~again /\ first = "Ok(true)"
                    THEN {e \in dir : e.name # saver.pack} ELSE dir
    /\ UNCHANGED <<max_split_bytes, rolling_type, temp_bytes, file_pos,
                   temp_log, clock, pack_q, retry, calls, last_cmd, given,
                   io_failed, rotations>>

\* ---- the specification ------------------------------------------------------
Next ==
    \/ (\E n \in AppenderCounts, lv \in Levels : InitCustomLog(n, lv))
          /\ UNCHANGED split_vars
    \/ (\E t \in Producers, rej \in BOOLEAN, mp \in ModulePaths : Log(t, rej, mp))
          /\ UNCHANGED split_vars
    \/ Flush /\ UNCHANGED split_vars
    \/ Exit /\ UNCHANGED split_vars
    \/ (\E p \in Pipes : IngestWorker(p)) /\ UNCHANGED split_vars
    \/ (\E p \in Pipes : IngestRecvErr(p)) /\ UNCHANGED split_vars
    \/ (\E p \in Pipes : SinkWorker(p)) /\ UNCHANGED split_vars
    \/ Wait /\ UNCHANGED split_vars

Spec == Init /\ [][Next]_all_vars

\* the coroutine scheduler runs every runnable coroutine, and a thread
\* blocked in wait() is woken when the last clone is dropped
Fairness ==
    /\ \A p \in Pipes : WF_vars(IngestWorker(p)) /\ WF_vars(SinkWorker(p))
    /\ WF_vars(Wait)

\* liveness is verified on the same actions with one accepted record fewer
LiveCap == TotalSent(MaxInit) < MaxSent

LiveNext ==
    \/ (\E n \in AppenderCounts, lv \in Levels : InitCustomLog(n, lv))
          /\ UNCHANGED split_vars
    \/ (\E t \in Producers, rej \in BOOLEAN, mp \in ModulePaths :
            Log(t, rej, mp) /\ LiveCap') /\ UNCHANGED split_vars
    \/ Flush /\ LiveCap' /\ UNCHANGED split_vars
    \/ Exit /\ LiveCap' /\ UNCHANGED split_vars
    \/ (\E p \in Pipes : IngestWorker(p)) /\ UNCHANGED split_vars
    \/ (\E p \in Pipes : IngestRecvErr(p)) /\ UNCHANGED split_vars
    \/ (\E p \in Pipes : SinkWorker(p)) /\ UNCHANGED split_vars
    \/ Wait /\ UNCHANGED split_vars

LiveSpec == Init /\ [][LiveNext]_all_vars /\ Fairness


\* ---- the specifications of the split appender --------------------------------
\* FileSplitAppender::new: temp.log is opened (created when missing), its
\* length read into temp_bytes (0 when metadata fails) and the cursor moved
\* there; spawn_saver starts the packer thread on the receiving end of the
\* channel. existing is what temp.log holds, old the snapshots already in
\* the directory.
FileSplitAppender_new(existing, meta_ok, max, rolling, retries, old) ==
    /\ max_split_bytes = max
    /\ rolling_type = rolling
    /\ temp_log = existing
    /\ temp_bytes = IF meta_ok THEN Len(existing) ELSE 0
    /\ file_pos = temp_bytes
    /\ dir = old
    /\ clock = 1
    /\ pack_q = <<>>
    /\ retry = retries
    /\ saver = [pc |-> "recv", pack |-> 0, tries |-> 0, first |-> "none",
                seen_true |-> FALSE]
    /\ calls = 0
    /\ last_cmd = "none"
    /\ given = {}
    /\ io_failed = ~meta_ok
    /\ rotations = 0

\* the sink worker's calls on one split appender, every file operation free
\* to fail; the packer thread does not touch what do_log reads or writes
\* (temp.log, the cursor, temp_bytes) and is left out of this specification
SplitInit ==
    /\ PipeInit
    /\ \E existing \in ExistingLogs, meta_ok \in BOOLEAN, max \in SplitSizes :
          FileSplitAppender_new(existing, meta_ok, max, [kind |-> "All", n |-> 0],
                                0, {})

SplitNext ==
    /\ \E cmd \in {CommandRecord, CommandFlush}, size \in RecordSizes,
          copy_ok \in BOOLEAN, set_len_ok \in BOOLEAN, seek_ok \in BOOLEAN,
          tick \in Ticks :
          \E wres \in WriteResults(size) :
             do_log(cmd, size, wres, copy_ok, set_len_ok, seek_ok, tick)
    /\ UNCHANGED vars

SplitSpec == SplitInit /\ [][SplitNext]_all_vars

\* the split appender with its packer thread: the sink worker's calls with
\* every file operation succeeding, and the packer thread at its own pace
PackInit ==
    /\ PipeInit
    /\ \E rolling \in RollingTypes, retries \in Retries, old \in OldSnapshots :
          FileSplitAppender_new(<<>>, TRUE, PackSplitSize, rolling, retries, old)

PackNext ==
    \/ /\ \E cmd \in {CommandRecord, CommandFlush}, tick \in Ticks :
             do_log(cmd, PackSplitSize, [ok |-> TRUE, n |-> PackSplitSize],
                    TRUE, TRUE, TRUE, tick)
       /\ UNCHANGED vars
    \/ SaverRecv /\ UNCHANGED vars
    \/ SaverOpen /\ UNCHANGED vars
    \/ (\E r \in PackResults : SaverPack(r)) /\ UNCHANGED vars

PackSpec == PackInit /\ [][PackNext]_all_vars

\* ==== properties ==============================================================
\* how often record r occurs in sequence q
Count(q, r) == Cardinality({i \in 1..Len(q) : q[i] = r})

\* the positions of sequence q that hold a record of command c
Positions(q, c) == {i \in 1..Len(q) : q[i].command = c}

\* the position in sent[p] of the CommandExit the ingest worker of p ends
\* on (the first one accepted), Len(sent[p]) + 1 when there is none yet
FirstExit(p) ==
    IF Positions(sent[p], CommandExit) = {} THEN Len(sent[p]) + 1
    ELSE CHOOSE i \in Positions(sent[p], CommandExit) :
            \A j \in Positions(sent[p], CommandExit) : i <= j

\* the positions in sent[p] of the CommandRecord records that were accepted
\* before a flush() that was itself accepted before the exit()
Drained(p) ==
    {i \in Positions(sent[p], CommandRecord) :
        \E j \in Positions(sent[p], CommandFlush) : i < j /\ j < FirstExit(p)}

\* C1 (flush drains): once wait() has returned, every record that Q1 accepted
\* before a flush(), the flush() coming before the exit() that shut the
\* pipeline down, has been passed to do_log of every appender of the list.
C1_FlushDrains ==
    waiter = "returned" =>
        \A i \in Drained(1) : \A a \in 1..appenders[1] :
            Count(logs[1][a], sent[1][i]) >= 1

\* C1 witness: wait() has returned with a flushed record in a pipeline of two
\* appenders
C1_Witness ==
    /\ waiter = "returned"
    /\ appenders[1] = 2
    /\ Cardinality(Drained(1)) >= 2

\* C2 (flush records reach the appenders), as claimed: every CommandFlush the
\* ingest worker has taken from Q1 is in Q2 or has been given to every
\* appender by do_log.
C2_FlushForwarded ==
    \A p \in Pipes : \A a \in 1..appenders[p] :
        Cardinality(Positions(sent[p], CommandFlush))
            - Cardinality(Positions(main_q[p], CommandFlush))
        <= Cardinality(Positions(back_q[p], CommandFlush))
            + Cardinality(Positions(logs[p][a], CommandFlush))

\* C3 (per-producer FIFO): on every appender, two records of one producer
\* are seen by do_log in the order the producer submitted them.
C3_PerProducerFifo ==
    \A p \in Pipes : \A a \in 1..appenders[p] :
        \A i, j \in Positions(logs[p][a], CommandRecord) :
            (i < j /\ logs[p][a][i].prod = logs[p][a][j].prod)
                => logs[p][a][i].seq < logs[p][a][j].seq

\* C3 witness: an appender has got two records of one producer and one of
\* another producer
C3_Witness ==
    \E p \in Pipes : appenders[p] = 2 /\ \E i, j, k \in 1..Len(logs[p][2]) :
        /\ i < j
        /\ logs[p][2][i].prod = logs[p][2][j].prod
        /\ logs[p][2][k].prod # logs[p][2][i].prod

\* C4 (exactly once): no appender ever sees a record twice, and once wait()
\* has returned every appender has seen each record submitted before the
\* flush exactly once: the number of do_log calls with CommandRecord is the
\* number of those submissions.
C4_ExactlyOnce ==
    /\ \A p \in Pipes : \A a \in 1..appenders[p] : \A i \in 1..Len(logs[p][a]) :
            Count(logs[p][a], logs[p][a][i]) = 1
    /\ waiter = "returned" =>
            \A a \in 1..appenders[1] :
                /\ \A i \in Drained(1) : Count(logs[1][a], sent[1][i]) = 1
                /\ Cardinality(Positions(logs[1][a], CommandRecord))
                        = Cardinality(Drained(1))

\* C4 witness: wait() has returned after two producers' records and two
\* flushes went through
C4_Witness ==
    /\ waiter = "returned"
    /\ \E i, j \in Drained(1) : sent[1][i].prod # sent[1][j].prod
    /\ Positions(sent[1], CommandRecord) = Drained(1)

\* C5 (no delivery without flush): a record an appender has seen was followed
\* on Q1 by a CommandFlush, and while Q1 has accepted no CommandFlush no
\* appender has been called at all.
C5_NoDeliveryWithoutFlush ==
    \A p \in Pipes : \A a \in 1..appenders[p] :
        /\ \A k \in Positions(logs[p][a], CommandRecord) :
              \E i \in Positions(sent[p], CommandRecord) :
                  /\ sent[p][i] = logs[p][a][k]
                  /\ \E j \in Positions(sent[p], CommandFlush) : i < j
        /\ Positions(sent[p], CommandFlush) = {} => logs[p][a] = <<>>

\* C5 witness: an appender has seen a flushed record while a later record,
\* not followed by a flush, waits in log_stack
C5_Witness ==
    \E p \in Pipes :
        /\ appenders[p] = 2
        /\ logs[p][1] # <<>> /\ logs[p][2] # <<>>
        /\ log_stack[p] # <<>>
        /\ main_q[p] = <<>>

\* C6 (wait-group barrier): when wait() has returned both workers of the
\* pipeline have ended, and each has dropped its clone exactly once; no
\* worker ever drops a clone twice.
C6_WaitBarrier ==
    /\ \A p \in Pipes : released[p].main <= 1 /\ released[p].back <= 1
    /\ waiter = "returned" =>
            /\ main_pc[1] = "done" /\ back_pc[1] = "done"
            /\ released[1].main = 1 /\ released[1].back = 1

\* C6 witness: wait() has returned
C6_Witness == waiter = "returned" /\ logs[1][1] # <<>>

\* C7 (exit terminates): once a channel has accepted the record of exit(),
\* the ingest worker of that pipeline sends CommandExit on and ends, then the
\* sink worker ends, and the holder of the wait group gets out of wait().
C7_ExitTerminates ==
    /\ \A p \in Pipes :
          (Positions(sent[p], CommandExit) # {})
              ~> (main_pc[p] = "done" /\ back_pc[p] = "done" /\ WaitGroupDone(p))
    /\ (Positions(sent[1], CommandExit) # {}) ~> (waiter = "returned")

\* C7 witness: exit() has just returned Ok with both workers still running
C7_Witness ==
    /\ ret = [op |-> "exit", res |-> "Ok"]
    /\ LOG_SENDER # 0
    /\ main_pc[LOG_SENDER] = "run" /\ back_pc[LOG_SENDER] = "run"
    /\ log_stack[LOG_SENDER] # <<>>

\* C8 (re-initialization without effect), as claimed: once a logger is
\* registered the slot keeps the sender the first call installed.
C8_SlotKeepsFirstSender == logger_set => LOG_SENDER = 1

\* C9 (empty appender list): init_custom_log with no appender returns the
\* error and changes neither the slot, the level, the registration, any
\* pipeline (no worker spawned) nor the wait group the caller holds.
C9_EmptyRejected ==
    [][(\E lv \in Levels : InitCustomLog(0, lv)) =>
          /\ ret' = [op |-> "init", res |-> "EmptyAppenders"]
          /\ UNCHANGED <<LOG_SENDER, level, logger_set, pipe_vars, waiter>>]_vars

\* C9 witness: the call with no appender has returned its error, once before
\* any pipeline exists
C9_Witness ==
    /\ ret = [op |-> "init", res |-> "EmptyAppenders"]
    /\ LOG_SENDER = 0
    /\ \A p \in Pipes : main_pc[p] = "none" /\ back_pc[p] = "none"

\* what a flush() or exit() step building record rec must do
ControlEffect(op, rec) ==
    /\ LOG_SENDER = 0 =>
          /\ ret' = [op |-> op, res |-> "Err"]
          /\ UNCHANGED <<LOG_SENDER, pipe_vars>>
    /\ (LOG_SENDER # 0 /\ main_pc[LOG_SENDER] = "run") =>
          /\ ret' = [op |-> op, res |-> "Ok"]
          /\ main_q' = [main_q EXCEPT ![LOG_SENDER] = Append(@, rec)]
          /\ UNCHANGED <<LOG_SENDER, log_stack, back_q, main_pc, back_pc,
                         wait_group, released, logs>>

\* C10 (flush and exit): with the slot empty the call returns Err and queues
\* nothing; with the slot set and the ingest worker receiving it appends one
\* record of its own command to Q1 and returns Ok, nothing being processed
\* in that step.
C10_ControlCalls ==
    [][/\ Flush => ControlEffect("flush", FlushRecord)
       /\ Exit => ControlEffect("exit", ExitRecord)]_vars

\* C10 witness: flush() has returned Ok and its record is the last of Q1
C10_Witness ==
    /\ ret = [op |-> "flush", res |-> "Ok"]
    /\ LOG_SENDER # 0
    /\ main_q[LOG_SENDER] # <<>>
    /\ main_q[LOG_SENDER][Len(main_q[LOG_SENDER])] = FlushRecord
    /\ Len(main_q[LOG_SENDER]) >= 2

\* ---- the file split appender ------------------------------------------------
\* C11 (split rotation threshold): a do_log call made with temp_bytes >=
\* max_split_bytes, or with a Flush record, performs exactly one rotation:
\* one LogPack is sent and temp_bytes is 0 afterwards, and while no file
\* operation has failed one snapshot holding the bytes of temp.log is in the
\* directory and temp.log is empty; a Record call with temp_bytes below
\* max_split_bytes sends no LogPack and creates no snapshot.
C11_RotationThreshold ==
    [][calls' = calls + 1 =>
          IF last_cmd' = CommandFlush \/ temp_bytes >= max_split_bytes
          THEN /\ pack_q' = Append(pack_q, [rolling |-> rolling_type,
                                            new_log_name |-> clock'])
               /\ rotations' = rotations + 1
               /\ temp_bytes' = 0
               /\ ~io_failed' =>
                     /\ [name |-> clock', data |-> temp_log] \in dir'
                     /\ {e \in dir' : e.name # clock'}
                            = {e \in dir : e.name # clock'}
                     /\ temp_log' = <<>>
          ELSE /\ UNCHANGED <<pack_q, rotations, dir, clock>>
               /\ Len(temp_log') >= Len(temp_log)]_all_vars

\* C11 witness: a rotation by size has happened with nothing failing: the
\* newest snapshot holds max_split_bytes bytes or more, its LogPack is the
\* last one sent, and temp.log is empty
C11_Witness ==
    /\ ~io_failed
    /\ last_cmd = CommandRecord
    /\ pack_q # <<>>
    /\ \E e \in dir : /\ e.name = pack_q[Len(pack_q)].new_log_name
                       /\ Len(e.data) >= max_split_bytes
                       /\ e.data[Len(e.data)] # 0
    /\ temp_log = <<>>
    /\ temp_bytes = 0

\* the calls whose bytes file content f holds
Writers(f) == {f[i] : i \in 1..Len(f)} \ {0}

\* C12 (no record lost by a rotation by size): while no file operation has
\* failed, the bytes of every Record call made so far are in temp.log or in
\* some snapshot of the directory; the record of the call that rotated by
\* size is among them (it would be written by the call after).
C12_NoRecordLost ==
    ~io_failed =>
        \A k \in given :
            \/ k \in Writers(temp_log)
            \/ \E e \in dir : k \in Writers(e.data)

\* C13 (a failed copy aborts the rotation): when the copy of temp.log to the
\* snapshot name fails, the do_log call sends no LogPack, leaves temp.log
\* as it is and does not reset temp_bytes.
C13_CopyFailureAborts ==
    [][\A cmd \in {CommandRecord, CommandFlush}, size \in RecordSizes,
          set_len_ok \in BOOLEAN, seek_ok \in BOOLEAN, tick \in Ticks :
          \A wres \in WriteResults(size) :
             (/\ cmd = CommandFlush \/ temp_bytes >= max_split_bytes
              /\ do_log(cmd, size, wres, FALSE, set_len_ok, seek_ok, tick))
                => UNCHANGED <<pack_q, temp_log, temp_bytes>>]_all_vars

\* ---- the packer thread ------------------------------------------------------
\* C14 (the remove contract of the packer): when the packer thread is done
\* with a LogPack, the snapshot is deleted if some packer invocation for it
\* returned Ok(true), one made on a retry included, and is still on disk if
\* none did.
C14_RemoveContract ==
    [][(saver.pc = "pack" /\ saver'.pc = "recv") =>
          (saver'.seen_true <=> saver.pack \notin FileNames(dir'))]_all_vars

\* C15 (retention KeepNum(n)): with rolling type KeepNum(n), after more than
\* n rotations and once the packer thread has processed every LogPack sent,
\* the directory holds at most n snapshots (the entries whose name starts
\* with temp, temp.log apart; the packer adds no file of its own).
C15_KeepNum ==
    (/\ rolling_type.kind = "KeepNum"
     /\ rotations > rolling_type.n
     /\ pack_q = <<>>
     /\ saver.pc = "recv")
        => Cardinality(dir) <= rolling_type.n

\* C15 witness: KeepNum(2), three rotations or more all processed, and the
\* directory still holds two snapshots
C15_Witness ==
    /\ rolling_type = [kind |-> "KeepNum", n |-> 2]
    /\ rotations >= 3
    /\ pack_q = <<>>
    /\ saver.pc = "recv"
    /\ saver.tries >= 1
    /\ Cardinality(dir) = 2

\* ---- the filter -------------------------------------------------------------
\* C16 (filter veto and blacklist): a Logger::log call whose record the
\* filter rejects, or whose module path is the blacklisted one, queues
\* nothing on Q1 and changes nothing in any pipeline, so the record reaches
\* no appender; flush() and exit(), which ask no filter, queue their record
\* whenever the slot is set and the ingest worker is receiving. (A call
\* leaves the workers' own state alone, and ret names the call made.)
C16_FilterVeto ==
    [][UNCHANGED <<log_stack, back_q, logs>> =>
          /\ ret'.op = "log" =>
                \A rej \in BOOLEAN, mp \in ModulePaths :
                   (rej \/ mp = Blacklisted) =>
                      \A t \in Producers :
                         Log(t, rej, mp) => UNCHANGED <<LOG_SENDER, pipe_vars>>
          /\ (ret'.op = "flush" /\ LOG_SENDER # 0 /\ main_pc[LOG_SENDER] = "run"
                 /\ Flush)
                => /\ sent' = [sent EXCEPT ![LOG_SENDER] = Append(@, FlushRecord)]
                   /\ main_q' = [main_q EXCEPT ![LOG_SENDER] = Append(@, FlushRecord)]
          /\ (ret'.op = "exit" /\ LOG_SENDER # 0 /\ main_pc[LOG_SENDER] = "run"
                 /\ Exit)
                => /\ sent' = [sent EXCEPT ![LOG_SENDER] = Append(@, ExitRecord)]
                   /\ main_q' = [main_q EXCEPT ![LOG_SENDER] = Append(@, ExitRecord)]]_vars

\* C16 witness: with a pipeline receiving, a log call has just been vetoed;
\* no Record has ever been queued although log calls were made, while a
\* flush() record was accepted and has been handled
C16_Witness ==
    /\ ret = [op |-> "log", res |-> "vetoed"]
    /\ LOG_SENDER # 0
    /\ main_pc[LOG_SENDER] = "run"
    /\ sent[LOG_SENDER] = <<FlushRecord>>
    /\ main_q[LOG_SENDER] = <<>>
    /\ appenders[LOG_SENDER] = 2
    /\ logs[LOG_SENDER][1] = <<>>

\* C17 (bounded pack retries): the packer is invoked at most 1 + retry()
\* times for one LogPack, once only when retry() is 0.
C17_BoundedRetries == saver.tries <= 1 + retry

\* C18 (every rotated snapshot is handed to the packer): the retention run
\* on receipt of a LogPack deletes no snapshot whose LogPack still waits in
\* the channel, and the snapshot of the LogPack received is there when the
\* packer thread opens it, so that the packer is invoked for it.
C18_SnapshotHandedOver ==
    [][/\ (saver.pc = "recv" /\ saver'.pc = "open") =>
             \A i \in 1..Len(pack_q') :
                 pack_q'[i].new_log_name \in FileNames(dir)
                    => pack_q'[i].new_log_name \in FileNames(dir')
       /\ (saver.pc = "open" /\ saver'.pc # "open") =>
             /\ saver.pack \in FileNames(dir)
             /\ saver'.pc = "pack"]_all_vars

Received(p) == Len(sent[p]) - Len(main_q[p])

\* C20 (Exit is the only shutdown path): an ingest worker has ended only if
\* it received a CommandExit, a sink worker only if the ingest worker ended
\* (and so passed the CommandExit on), and wait() has returned only if both
\* workers of the pipeline did; a pipeline that was sent no exit(), flushed
\* or not, its sender dropped or not, keeps both workers running and the
\* caller of wait() blocked.
C20_ExitOnlyShutdown ==
    /\ \A p \in Pipes :
          /\ main_pc[p] = "done" =>
                \E i \in Positions(sent[p], CommandExit) : i <= Received(p)
          /\ back_pc[p] = "done" => main_pc[p] = "done"
          /\ (main_pc[p] # "none" /\ Positions(sent[p], CommandExit) = {}) =>
                main_pc[p] = "run" /\ back_pc[p] = "run"
    /\ waiter = "returned" =>
          /\ main_pc[1] = "done" /\ back_pc[1] = "done"
          /\ Positions(sent[1], CommandExit) # {}

\* C20 witness: flush() without exit(): the flushed record has reached the
\* appenders, every queue of the pipeline is empty and its sender has been
\* dropped, so each receive fails; both workers still run and the caller
\* of wait() is still blocked
C20_Witness ==
    /\ waiter = "idle"
    /\ LOG_SENDER = 2
    /\ Positions(sent[1], CommandFlush) # {}
    /\ Positions(sent[1], CommandExit) = {}
    /\ main_q[1] = <<>> /\ log_stack[1] = <<>> /\ back_q[1] = <<>>
    /\ appenders[1] = 2 /\ logs[1][1] # <<>>
    /\ main_pc[1] = "run" /\ back_pc[1] = "run"

\* the positions in sent[p] of the CommandRecord records no flush() accepted
\* before the exit() follows
Undrained(p) == Positions(sent[p], CommandRecord) \ Drained(p)

\* C21 (unflushed records are discarded at exit): a record that Q1 accepted
\* with no flush() between it and the exit() is on Q2 never and in no
\* appender's hands; once the ingest worker has ended on the CommandExit,
\* what it sent to Q2 last is that one CommandExit, and the records it had
\* buffered went nowhere.
C21_UnflushedDiscarded ==
    \A p \in Pipes :
        /\ \A i \in Undrained(p) :
              /\ Count(back_q[p], sent[p][i]) = 0
              /\ \A a \in 1..appenders[p] : Count(logs[p][a], sent[p][i]) = 0
        /\ main_pc[p] = "done" =>
              /\ Count(back_q[p], ExitRecord) <= 1
              /\ back_pc[p] = "run" =>
                    /\ back_q[p] # <<>>
                    /\ back_q[p][Len(back_q[p])] = ExitRecord
              /\ \A k \in 1..Len(log_stack[p]) :
                    \E i \in Undrained(p) : sent[p][i] = log_stack[p][k]

\* C21 witness: both workers have ended after record, flush(), record,
\* exit(): the first record reached the appenders, the second was in the
\* buffer when the CommandExit came and reached none
C21_Witness ==
    \E p \in Pipes :
        /\ main_pc[p] = "done" /\ back_pc[p] = "done"
        /\ appenders[p] = 2
        /\ Drained(p) # {}
        /\ \E i \in Undrained(p) :
              /\ i < FirstExit(p)
              /\ log_stack[p] = <<sent[p][i]>>
              /\ Count(logs[p][1], sent[p][i]) = 0
              /\ Count(logs[p][2], sent[p][i]) = 0
        /\ logs[p][1] # <<>>

====
